---- MODULE Spec2Model ----
(***************************************************************************)
(* Model of the asynchronous bulk-refresh job of monarchmoney-go           *)
(* (refreshJob: Wait / IsComplete / Cancel / GetProgress / GetMetrics).    *)
(* One job, one goroutine calling Wait (possibly several times in a row),  *)
(* one goroutine calling Cancel, one observer calling IsComplete, and the  *)
(* owner of the context handed to Wait.  Every access to a shared field of *)
(* the job is a step of its own, so the goroutines interleave as they do   *)
(* in the program.  Time is in microseconds; it passes only while Wait is  *)
(* blocked in its select or has a request outstanding, and between calls.  *)
(*                                                                         *)
(* Spec     : Wait, Cancel and the caller's context, all interleavings.    *)
(* SpecWait : Wait and the caller's context alone; longer runs of the      *)
(*            polling loop, over several item lists.                       *)
(* SpecObs  : SpecWait with an observer calling IsComplete.                *)
(* SpecWide, SpecOmit : Wait with a provider that answers for more or for  *)
(*            fewer accounts than were asked.                              *)
(* SpecMetrics : SpecWide with a goroutine calling GetMetrics, whose reads  *)
(*            of the fields are steps of their own.                        *)
(* SpecCopy : Wait with a caller that edits the map GetProgress returned.  *)
(* SpecTwo  : Wait with a second goroutine that calls Wait.                *)
(* SpecPoll : a caller that polls IsComplete for ever.                     *)
(* SpecMgr, SpecClean : RefreshJobManager over the jobs.                   *)
(* SpecLock : the operations at the granularity of their locks, with       *)
(*            Cancel on the job.                                           *)
(***************************************************************************)
EXTENDS Integers, Sequences, FiniteSets, TLC

VARIABLES
    accountIDs,      \* refreshJob.accountIDs
    startTime,       \* refreshJob.startTime
    endTime,         \* refreshJob.endTime (NoTime = nil)
    status,          \* refreshJob.status
    lastCheck,       \* refreshJob.lastCheck (NoTime = zero value)
    checkCount,      \* refreshJob.checkCount
    cancelFunc,      \* refreshJob.cancelFunc: 0 = nil, k = cancel of the k-th Wait's context
    cancelled,       \* refreshJob.cancelled
    lastError,       \* refreshJob.lastError (NoErr = nil)
    progress,        \* refreshJob.progress
    now,             \* the wall clock
    parentDone,      \* the context passed to the running Wait is done
    wpc,             \* position of the goroutine calling Wait
    timeout,         \* Wait's timeout argument
    deadline,        \* deadline of waitCtx
    ctxCancelled,    \* waitCtx was cancelled through its cancel function
    currentInterval, \* Wait's local currentInterval
    nextTick,        \* time at which the ticker sends next
    tickReady,       \* a value is buffered in ticker.C
    perr,            \* Wait's local err (result of checkStatus)
    term,            \* the status Wait is about to store
    ret,             \* the value Wait returns
    cpc,             \* position of the goroutine calling Cancel
    cPre,            \* history: status and endTime when Cancel was called, and whether no Wait was in flight
    icRet,           \* what the last IsComplete returned, and the number of calls
    ic,              \* the goroutine calling IsComplete: position, status read, history
    held,            \* the map a caller got from GetProgress, and its edits of it
    mgr,             \* RefreshJobManager.jobs: id -> job (0 = this job, k = others[k])
    others,          \* the other jobs constructed: their fields, and where their Wait and Cancel are
    cleanupRet,      \* history: the last CleanupCompleted call and what it returned
    w2,              \* a second goroutine calling Wait on this job: position and locals
    threads,         \* the goroutines of the lock-level view: operation, position, argument
    gm,              \* the goroutine calling GetMetrics: position, the values read so far, history
    probePre,        \* history: the job's fields when the probe of Wait in flight started
    waitCalls,       \* history: number of Wait calls so far
    probes,          \* history: probes made by the running Wait
    allProbes,       \* history: probes made by all the Wait calls
    lastOutcome,     \* history: outcome of the last probe of the running Wait
    sawError,        \* history: a probe of the running Wait returned an error
    cancelCalls,     \* history: number of Cancel calls so far
    wCancelBefore,   \* history: a Cancel had returned before the running Wait was called
    wCancelDuring    \* history: Cancel was called while the running Wait was polling

vars == <<accountIDs, startTime, endTime, status, lastCheck, checkCount,
          cancelFunc, cancelled, lastError, progress, now, parentDone, wpc,
          timeout, deadline, ctxCancelled, currentInterval, nextTick,
          tickReady, perr, term, ret, cpc, cPre, icRet, ic, held, mgr,
          others, cleanupRet, w2, threads, gm, probePre, waitCalls,
          probes,
          allProbes, lastOutcome, sawError, cancelCalls, wCancelBefore,
          wCancelDuring>>

(***************************************************************************)
(* Bounds of the model.                                                    *)
(***************************************************************************)
MaxQuanta == 3         \* Spec: the clock stops after MaxQuanta * Quantum
MaxWaits == 2          \* Spec: Wait calls made one after the other
MaxCancels == 1        \* Spec: Cancel calls
MaxProbes == 2         \* Spec: probes made by all the Wait calls together
SeqQuanta == 5         \* SpecWait: the clock stops after SeqQuanta * Quantum
SeqWaits == 1          \* SpecWait: Wait calls made one after the other
SeqProbes == 4         \* SpecWait: probes made by all the Wait calls together
MaxObs == 1            \* SpecObs: IsComplete calls
ObsQuanta == 2         \* SpecObs and the later ones: the clock stops after ObsQuanta * Quantum
ObsWaits == 1          \* SpecObs and the later ones: Wait calls made one after the other
ObsProbes == 2         \* SpecObs and the later ones: probes made by Wait
MaxSnaps == 1          \* SpecCopy: GetProgress calls
MaxEdits == 2          \* SpecCopy: edits of the returned map
MaxOthers == 1         \* SpecMgr: jobs constructed besides the first
MgrQuanta == 2         \* SpecMgr: the clock stops after MgrQuanta * HalfSecond
MaxCleanups == 1       \* SpecMgr, SpecClean: CleanupCompleted calls
MaxThreads == 2        \* SpecLock: goroutines
MaxMetrics == 1        \* SpecMetrics: GetMetrics calls
LockQuanta == 1        \* SpecLock: half seconds that pass

\* time.Second, in microseconds
Second == 1000000
\* the longest step of the clock
Quantum == Second
HalfSecond == Second \div 2

(***************************************************************************)
(* RefreshStatus.                                                          *)
(***************************************************************************)
RefreshStatusPending == "pending"
RefreshStatusInProgress == "in_progress"
RefreshStatusCompleted == "completed"
RefreshStatusFailed == "failed"
RefreshStatusCancelled == "cancelled"
RefreshStatusTimeout == "timeout"

Terminal(s) == s \in {RefreshStatusCompleted, RefreshStatusFailed,
                      RefreshStatusCancelled, RefreshStatusTimeout}

NoTime == -1
\* a time.Time copied while it was being assigned: words of two values
TornTime == -2

(***************************************************************************)
(* Errors.  An error value is described by what the program asks of it:    *)
(* is = the sentinels errors.Is finds in its chain, api = errors.As finds  *)
(* a *monarch.Error in its chain, code = that Error's StatusCode.          *)
(***************************************************************************)
MkErr(sentinels, isApi, statusCode, message) ==
    [is |-> sentinels, api |-> isApi, code |-> statusCode, msg |-> message,
     wrap |-> ""]

NoErr == MkErr({}, FALSE, 0, "nil")
ErrRefreshTimeout == MkErr({"ErrRefreshTimeout"}, FALSE, 0, "refresh timeout")
ErrJobCancelled == MkErr({}, FALSE, 0, "refresh job was cancelled")

ErrRateLimited == MkErr({"ErrRateLimited"}, FALSE, 0, "rate limited")
ApiError(c) == MkErr({}, TRUE, c, "api error")
\* what GraphQLTransport returns for HTTP 429: the sentinel of internal/types
TransportRateLimited == MkErr({"types.ErrRateLimited"}, FALSE, 0, "rate limited")
CtxCanceled == MkErr({"context.Canceled"}, FALSE, 0, "context canceled")
CtxDeadlineExceeded ==
    MkErr({"context.DeadlineExceeded"}, FALSE, 0, "context deadline exceeded")

ErrorsIs(err, target) == target \in err.is

\* IsRetryable that retries on every *Error, whatever its StatusCode
IsRetryableAnyApi(err) ==
    IF ErrorsIs(err, "ErrRateLimited") \/ ErrorsIs(err, "ErrTimeout")
          \/ ErrorsIs(err, "ErrServerError")
    THEN TRUE
    ELSE err.api

IsRetryable(err) ==
    IF ErrorsIs(err, "ErrRateLimited") \/ ErrorsIs(err, "ErrTimeout")
          \/ ErrorsIs(err, "ErrServerError")
    THEN TRUE
    ELSE IF err.api
         THEN err.code >= 500 \/ err.code = 429
         ELSE FALSE

\* errors.Wrap(err, "failed to check refresh status"): the chain of err is kept
Wrap(err) == [err EXCEPT !.wrap = "failed to check refresh status"]

\* errors a probe can fail with while its context is live
ProbeErrors == {ErrRateLimited, ApiError(500), ApiError(400),
                TransportRateLimited}

(***************************************************************************)
(* Items, provider responses and the progress map.                         *)
(***************************************************************************)
\* time.Now() when the job is constructed
StartClock == 500000

ItemLists == {<<"a">>, <<"a", "b">>, <<"a", "a">>}
OneItem == {<<"a">>}
TwoItems == {<<"a", "b">>}
AllIDs == {"a", "b"}

\* one element of result.Accounts: updateRequired stands for
\* Credential != nil && Credential.UpdateRequired, lastSynced NoTime for nil
Account(id, syncing, updateRequired, lastSynced) ==
    [id |-> id, syncing |-> syncing, updateRequired |-> updateRequired,
     lastSynced |-> lastSynced]

AccountsOf(id, start) ==
    {Account(id, TRUE, FALSE, start + 1),
     Account(id, FALSE, TRUE, start + 1),
     Account(id, FALSE, FALSE, NoTime),
     Account(id, FALSE, FALSE, start),
     Account(id, FALSE, FALSE, start + 1)}

\* the provider answers for the requested accounts, in the order asked
RECURSIVE Distinct(_)
Distinct(ids) ==
    IF ids = <<>> THEN <<>>
    ELSE LET rest == Distinct(SubSeq(ids, 1, Len(ids) - 1))
             last == ids[Len(ids)]
         IN IF \E i \in 1..Len(rest) : rest[i] = last THEN rest
            ELSE Append(rest, last)

Responses(ids, start) ==
    LET asked == Distinct(ids)
    IN {r \in [1..Len(asked) -> UNION {AccountsOf(id, start) : id \in AllIDs}] :
            \A i \in 1..Len(asked) : r[i].id = asked[i]}

\* a provider that answers with one more account than was asked for: an
\* account of an id the job was not constructed with, or an asked one again
WiderResponses(ids, start) ==
    {Append(r, extra) : r \in Responses(ids, start),
                        extra \in UNION {AccountsOf(id, start) : id \in AllIDs}}

\* the elements of s at the positions in S, in their order
RECURSIVE Keep(_, _)
Keep(s, S) ==
    IF s = <<>> THEN <<>>
    ELSE LET init == Keep(SubSeq(s, 1, Len(s) - 1), S)
         IN IF Len(s) \in S THEN Append(init, s[Len(s)]) ELSE init

\* a provider that answers for some of the requested accounts only, or for
\* none of them
OmittingResponses(ids, start) ==
    LET asked == Distinct(ids)
    IN UNION {Responses(Keep(asked, S), start) : S \in SUBSET (1..Len(asked))}

Put(m, k, v) == [x \in DOMAIN m \cup {k} |-> IF x = k THEN v ELSE m[x]]

\* newRefreshJob with a loop that starts at the second id
NewProgressFromSecond(ids) ==
    [k \in {ids[i] : i \in 2..Len(ids)} |-> FALSE]

RECURSIVE NewProgress(_)
NewProgress(ids) ==
    IF ids = <<>> THEN <<>>
    ELSE Put(NewProgress(SubSeq(ids, 1, Len(ids) - 1)), ids[Len(ids)], FALSE)

\* the three tests of checkStatus's loop body
AccountComplete(account, start) ==
    IF account.syncing THEN FALSE
    ELSE IF account.updateRequired THEN FALSE
    ELSE account.lastSynced # NoTime /\ account.lastSynced > start

RECURSIVE UpdateProgress(_, _, _)
UpdateProgress(prog, accounts, start) ==
    IF accounts = <<>> THEN prog
    ELSE UpdateProgress(Put(prog, Head(accounts).id,
                            AccountComplete(Head(accounts), start)),
                        Tail(accounts), start)

AllComplete(accounts, start) ==
    \A i \in 1..Len(accounts) : AccountComplete(accounts[i], start)

GetProgress == progress

Remove(m, k) == [x \in DOMAIN m \ {k} |-> m[x]]

\* GetProgress that returns j.progress itself
ShareMap(m, n) == [ref |-> "job", m |-> m, edits |-> 0, calls |-> n]

\* progress := make(map[string]bool); for k, v := range j.progress { ... }:
\* the caller holds a new map with the entries of m
CopyMap(m, n) == [ref |-> "copy", m |-> m, edits |-> 0, calls |-> n]

\* what the caller reads in the map it holds
HeldMap == IF held.ref = "job" THEN progress ELSE held.m

CompletedCount == Cardinality({k \in DOMAIN GetProgress : GetProgress[k]})

\* the zero value of RefreshJobMetrics
NoMetrics ==
    [ID |-> 0, Status |-> "", StartTime |-> NoTime, EndTime |-> NoTime,
     Duration |-> 0, AccountCount |-> 0, CompletedCount |-> 0,
     CheckCount |-> 0, LastCheck |-> NoTime, LastError |-> NoErr]

(***************************************************************************)
(* Polling configuration of Wait.                                          *)
(***************************************************************************)
initialInterval == 1 * Second
maxInterval == 5 * Second

\* time.Duration(float64(currentInterval) * backoffFactor), capped
NextInterval(cur) ==
    LET grown == (cur * 3) \div 2
    IN IF grown > maxInterval THEN maxInterval ELSE grown

Timeouts == {2 * Second, 100 * Second}

(***************************************************************************)
(* History: the fields of the job, lastError apart, at the start of a      *)
(* probe.                                                                  *)
(***************************************************************************)
NoSnapshot == [taken |-> FALSE, job |-> <<>>]

JobFields ==
    [status |-> status, endTime |-> endTime, lastCheck |-> lastCheck,
     checkCount |-> checkCount, cancelFunc |-> cancelFunc,
     cancelled |-> cancelled, progress |-> progress]

Snapshot == [taken |-> TRUE, job |-> JobFields]

(***************************************************************************)
(* The goroutines of the lock-level view.                                  *)
(***************************************************************************)
Goroutines == 1..MaxThreads

\* the second goroutine has not called Wait
Wait2Idle ==
    [pc |-> "idle", deadline |-> 0, parentDone |-> FALSE,
     ctxCancelled |-> FALSE, currentInterval |-> 0, nextTick |-> NoTime,
     tickReady |-> FALSE, probes |-> 0, perr |-> NoErr,
     term |-> RefreshStatusPending, ret |-> NoErr]

NoOp == [op |-> "none", pc |-> 0, arg |-> 0, at |-> NoTime]

(***************************************************************************)
(* newRefreshJob: the state right after construction.                      *)
(***************************************************************************)
InitOver(lists) ==
    /\ accountIDs \in lists
    /\ startTime = StartClock
    /\ now = StartClock
    /\ endTime = NoTime
    /\ status = RefreshStatusPending
    /\ lastCheck = NoTime
    /\ checkCount = 0
    /\ cancelFunc = 0
    /\ cancelled = FALSE
    /\ lastError = NoErr
    /\ progress = NewProgress(accountIDs)
    /\ parentDone = FALSE
    /\ wpc = "idle"
    /\ timeout = 0
    /\ deadline = 0
    /\ ctxCancelled = FALSE
    /\ currentInterval = 0
    /\ nextTick = NoTime
    /\ tickReady = FALSE
    /\ perr = NoErr
    /\ term = RefreshStatusPending
    /\ ret = NoErr
    /\ cpc = "idle"
    /\ cPre = [status |-> RefreshStatusPending, endTime |-> NoTime,
               quiet |-> TRUE]
    /\ icRet = [calls |-> 0, complete |-> FALSE, err |-> NoErr]
    /\ ic = [pc |-> "idle", status |-> RefreshStatusPending, probes |-> 0,
             resp |-> <<>>]
    /\ held = [ref |-> "none", m |-> <<>>, edits |-> 0, calls |-> 0]
    /\ mgr = <<>>
    /\ others = <<>>
    /\ cleanupRet = [calls |-> 0, olderThan |-> 0, removed |-> 0, kept |-> 0]
    /\ w2 = Wait2Idle
    /\ threads = [t \in Goroutines |-> NoOp]
    /\ gm = [pc |-> "idle", calls |-> 0, afterWait |-> FALSE, todo |-> {},
             m |-> NoMetrics]
    /\ probePre = NoSnapshot
    /\ waitCalls = 0
    /\ probes = 0
    /\ allProbes = 0
    /\ lastOutcome = "none"
    /\ sawError = FALSE
    /\ cancelCalls = 0
    /\ wCancelBefore = FALSE
    /\ wCancelDuring = FALSE

jobVars == <<accountIDs, startTime, endTime, status, lastCheck, checkCount,
             cancelFunc, cancelled, lastError, progress>>
waitLocals == <<timeout, deadline, currentInterval, perr, term, ret>>
tickerVars == <<nextTick, tickReady>>
waitHist == <<waitCalls, probes, allProbes, lastOutcome, sawError, wCancelBefore,
              wCancelDuring, probePre>>
cancelVars == <<cpc, cPre, cancelCalls>>
mgrVars == <<mgr, others, cleanupRet>>
sideVars == <<held, mgrVars, w2, threads, gm>>
obsVars == <<icRet, ic, sideVars>>

WaitInFlight == wpc \notin {"idle", "returned"}

\* Wait is in flight and has not yet chosen the result it returns
WaitPolling ==
    wpc \in {"setCancelFunc", "storeInProgress", "select", "probing",
             "setError", "count", "backoff"}

\* history: the time at which the running Wait was called
waitStart == deadline - timeout

\* waitCtx.Done() is closed
CtxDone == ctxCancelled \/ parentDone \/ now >= deadline

\* Wait is blocked: in its select with no case ready, or in a request
WaitBlocked ==
    \/ wpc = "select" /\ ~tickReady /\ ~CtxDone
    \/ wpc = "probing"

\* the same for the second goroutine's Wait
Wait2InFlight == w2.pc \notin {"idle", "returned"}

Ctx2Done == w2.ctxCancelled \/ w2.parentDone \/ now >= w2.deadline

Wait2Blocked ==
    \/ w2.pc = "select" /\ ~w2.tickReady /\ ~Ctx2Done
    \/ w2.pc = "probing"

(***************************************************************************)
(* The clock, the ticker and the caller's context.                         *)
(***************************************************************************)
TickerRunning == WaitInFlight /\ nextTick # NoTime

\* the next instant at which something happens: the next quantum, a tick of
\* a running ticker, the deadline of a running Wait
NextInstant ==
    LET Instants ==
            {now + Quantum}
                \cup (IF TickerRunning /\ nextTick > now THEN {nextTick} ELSE {})
                \cup (IF WaitInFlight /\ deadline > now THEN {deadline} ELSE {})
                \cup (IF Wait2InFlight /\ w2.nextTick # NoTime
                         /\ w2.nextTick > now
                      THEN {w2.nextTick} ELSE {})
                \cup (IF Wait2InFlight /\ w2.deadline > now
                      THEN {w2.deadline} ELSE {})
    IN CHOOSE t \in Instants : \A u \in Instants : t <= u

\* time passes; a ticker whose period has elapsed sends on ticker.C,
\* which holds at most one value
Advance(maxQuanta) ==
    /\ NextInstant <= StartClock + maxQuanta * Quantum
    /\ WaitBlocked \/ ~WaitInFlight
    /\ Wait2Blocked \/ ~Wait2InFlight
    /\ WaitBlocked \/ Wait2Blocked \/ (cpc = "idle" /\ endTime = now)
    /\ now' = NextInstant
    /\ IF TickerRunning /\ nextTick = NextInstant
       THEN /\ tickReady' = TRUE
            /\ nextTick' = nextTick + currentInterval
       ELSE UNCHANGED tickerVars
    /\ w2' = IF Wait2InFlight /\ w2.nextTick = NextInstant
             THEN [w2 EXCEPT !.tickReady = TRUE,
                             !.nextTick = w2.nextTick + w2.currentInterval]
             ELSE w2
    /\ UNCHANGED <<jobVars, parentDone, wpc, waitLocals, ctxCancelled,
                   cancelVars, icRet, ic, held, mgrVars, threads, gm,
                   waitHist>>

\* the caller cancels the context it passed to Wait
ParentCancel ==
    /\ WaitInFlight
    /\ ~parentDone
    /\ parentDone' = TRUE
    /\ UNCHANGED <<jobVars, now, wpc, waitLocals, ctxCancelled, tickerVars,
                   cancelVars, obsVars, waitHist>>

(***************************************************************************)
(* Wait(ctx, timeout).                                                     *)
(***************************************************************************)
\* waitCtx, cancel := context.WithTimeout(ctx, timeout)
WaitCall(t, maxWaits) ==
    /\ ~WaitInFlight
    /\ waitCalls < maxWaits
    /\ timeout' = t
    /\ deadline' = now + t
    /\ ctxCancelled' = FALSE
    /\ parentDone' = FALSE
    /\ wpc' = "setCancelFunc"
    /\ currentInterval' = 0
    /\ perr' = NoErr
    /\ term' = RefreshStatusPending
    /\ ret' = NoErr
    /\ nextTick' = NoTime
    /\ tickReady' = FALSE
    /\ waitCalls' = waitCalls + 1
    /\ probes' = 0
    /\ UNCHANGED allProbes
    /\ lastOutcome' = "none"
    /\ sawError' = FALSE
    /\ wCancelBefore' = (cancelCalls > 0 /\ cpc = "idle")
    /\ wCancelDuring' = (cpc # "idle")
    /\ probePre' = NoSnapshot
    /\ UNCHANGED <<jobVars, now, cancelVars, obsVars>>

\* j.cancelFunc = cancel
WaitSetCancelFunc ==
    /\ wpc = "setCancelFunc"
    /\ cancelFunc' = waitCalls
    /\ wpc' = "storeInProgress"
    /\ UNCHANGED <<accountIDs, startTime, endTime, status, lastCheck,
                   checkCount, cancelled, lastError, progress, now,
                   parentDone, waitLocals, ctxCancelled, tickerVars,
                   cancelVars, obsVars, waitHist>>

\* j.status.Store(RefreshStatusInProgress); ticker := time.NewTicker(initialInterval)
WaitStoreInProgress ==
    /\ wpc = "storeInProgress"
    /\ status' = RefreshStatusInProgress
    /\ currentInterval' = initialInterval
    /\ nextTick' = now + initialInterval
    /\ tickReady' = FALSE
    /\ wpc' = "select"
    /\ UNCHANGED <<accountIDs, startTime, endTime, lastCheck, checkCount,
                   cancelFunc, cancelled, lastError, progress, now,
                   parentDone, timeout, deadline, perr, term, ret,
                   ctxCancelled, cancelVars, obsVars, waitHist>>

\* the Done branch with the test of j.cancelled inverted
WaitCtxDoneInverted ==
    /\ wpc = "select"
    /\ CtxDone
    /\ IF ~cancelled
       THEN /\ term' = RefreshStatusCancelled
            /\ ret' = ErrJobCancelled
       ELSE /\ term' = RefreshStatusTimeout
            /\ ret' = ErrRefreshTimeout
    /\ wpc' = "storeTerminal"
    /\ UNCHANGED <<jobVars, now, parentDone, timeout, deadline,
                   currentInterval, perr, ctxCancelled, tickerVars,
                   cancelVars, obsVars, waitHist>>

\* case <-waitCtx.Done(): the branch is chosen by j.cancelled.Load()
WaitCtxDone ==
    /\ wpc = "select"
    /\ CtxDone
    /\ IF cancelled
       THEN /\ term' = RefreshStatusCancelled
            /\ ret' = ErrJobCancelled
       ELSE /\ term' = RefreshStatusTimeout
            /\ ret' = ErrRefreshTimeout
    /\ wpc' = "storeTerminal"
    /\ UNCHANGED <<jobVars, now, parentDone, timeout, deadline,
                   currentInterval, perr, ctxCancelled, tickerVars,
                   cancelVars, obsVars, waitHist>>

\* case <-ticker.C: checkStatus starts (j.lastCheck = time.Now()) and
\* sends its request
WaitTick(maxProbes) ==
    /\ wpc = "select"
    /\ tickReady
    /\ allProbes < maxProbes
    /\ tickReady' = FALSE
    /\ lastCheck' = now
    /\ probes' = probes + 1
    /\ allProbes' = allProbes + 1
    /\ probePre' = Snapshot
    /\ wpc' = "probing"
    /\ UNCHANGED <<accountIDs, startTime, endTime, status, checkCount,
                   cancelFunc, cancelled, lastError, progress, now,
                   parentDone, waitLocals, ctxCancelled, nextTick,
                   cancelVars, obsVars, waitCalls, lastOutcome, sawError,
                   wCancelBefore, wCancelDuring>>

\* errors executeGraphQL can return for a request made with waitCtx
WaitProbeErrors ==
    ProbeErrors
        \cup (IF ctxCancelled \/ parentDone THEN {CtxCanceled} ELSE {})
        \cup (IF now >= deadline THEN {CtxDeadlineExceeded} ELSE {})

Outcome(o) ==
    /\ lastOutcome' = o
    /\ sawError' = (sawError \/ o = "error")

\* checkStatus returns (false, errors.Wrap(err, ...))
WaitProbeError(e) ==
    /\ wpc = "probing"
    /\ perr' = Wrap(e)
    /\ Outcome("error")
    /\ wpc' = "setError"
    /\ UNCHANGED <<jobVars, now, parentDone, timeout, deadline,
                   currentInterval, term, ret, ctxCancelled, tickerVars,
                   cancelVars, obsVars, waitCalls, probes, allProbes,
                   wCancelBefore, wCancelDuring, probePre>>

\* checkStatus updates the progress map and returns (allComplete, nil)
WaitProbeOK(accounts) ==
    /\ wpc = "probing"
    /\ progress' = UpdateProgress(progress, accounts, startTime)
    /\ perr' = NoErr
    /\ probePre' = NoSnapshot
    /\ IF AllComplete(accounts, startTime)
       THEN /\ Outcome("complete")
            /\ term' = RefreshStatusCompleted
            /\ ret' = NoErr
            /\ wpc' = "storeTerminal"
       ELSE /\ Outcome("incomplete")
            /\ wpc' = "count"
            /\ UNCHANGED <<term, ret>>
    /\ UNCHANGED <<accountIDs, startTime, endTime, status, lastCheck,
                   checkCount, cancelFunc, cancelled, lastError, now,
                   parentDone, timeout, deadline, currentInterval,
                   ctxCancelled, tickerVars, cancelVars, obsVars, waitCalls,
                   probes, allProbes, wCancelBefore, wCancelDuring>>

\* the handling of a probe error with the increment of checkCount before it
WaitSetErrorCounts ==
    /\ wpc = "setError"
    /\ lastError' = perr
    /\ checkCount' = checkCount + 1
    /\ IF ~IsRetryable(perr)
       THEN /\ term' = RefreshStatusFailed
            /\ ret' = perr
            /\ wpc' = "storeTerminal"
       ELSE /\ wpc' = "select"
            /\ UNCHANGED <<term, ret>>
    /\ probePre' = NoSnapshot
    /\ UNCHANGED <<accountIDs, startTime, endTime, status, lastCheck,
                   cancelFunc, cancelled, progress, now,
                   parentDone, timeout, deadline, currentInterval, perr,
                   ctxCancelled, tickerVars, cancelVars, obsVars, waitCalls,
                   probes, allProbes, lastOutcome, sawError, wCancelBefore,
                   wCancelDuring>>

\* j.setError(err); if !IsRetryable(err) { fail } else { continue }
WaitSetError ==
    /\ wpc = "setError"
    /\ lastError' = perr
    /\ IF ~IsRetryable(perr)
       THEN /\ term' = RefreshStatusFailed
            /\ ret' = perr
            /\ wpc' = "storeTerminal"
       ELSE /\ wpc' = "select"
            /\ UNCHANGED <<term, ret>>
    /\ probePre' = NoSnapshot
    /\ UNCHANGED <<accountIDs, startTime, endTime, status, lastCheck,
                   checkCount, cancelFunc, cancelled, progress, now,
                   parentDone, timeout, deadline, currentInterval, perr,
                   ctxCancelled, tickerVars, cancelVars, obsVars, waitCalls,
                   probes, allProbes, lastOutcome, sawError, wCancelBefore,
                   wCancelDuring>>

\* atomic.AddInt32(&j.checkCount, 1)
WaitCount ==
    /\ wpc = "count"
    /\ checkCount' = checkCount + 1
    /\ wpc' = "backoff"
    /\ UNCHANGED <<accountIDs, startTime, endTime, status, lastCheck,
                   cancelFunc, cancelled, lastError, progress, now,
                   parentDone, waitLocals, ctxCancelled, tickerVars,
                   cancelVars, obsVars, waitHist>>

\* if j.checkCount%3 == 0 && currentInterval < maxInterval: the backoff of
\* the interval; ticker.Reset drops a tick that is waiting in ticker.C
\* (go 1.23)
WaitBackoff ==
    /\ wpc = "backoff"
    /\ IF checkCount % 3 = 0 /\ currentInterval < maxInterval
       THEN /\ currentInterval' = NextInterval(currentInterval)
            /\ nextTick' = now + currentInterval'
            /\ tickReady' = FALSE
       ELSE UNCHANGED <<currentInterval, nextTick, tickReady>>
    /\ wpc' = "select"
    /\ UNCHANGED <<accountIDs, startTime, endTime, status, lastCheck,
                   checkCount, cancelFunc, cancelled, lastError, progress, now,
                   parentDone, timeout, deadline, perr, term, ret,
                   ctxCancelled, cancelVars, obsVars, waitHist>>

\* every branch returns right after the store, as the Cancelled branch does
WaitStoreTerminalNoStamp ==
    /\ wpc = "storeTerminal"
    /\ status' = term
    /\ wpc' = "returned"
    /\ UNCHANGED <<accountIDs, startTime, endTime, lastCheck, checkCount,
                   cancelFunc, cancelled, lastError, progress, now,
                   parentDone, waitLocals, ctxCancelled, tickerVars,
                   cancelVars, obsVars, waitHist>>

\* j.status.Store(...) of a terminal status; the Cancelled branch returns
\* right after it
WaitStoreTerminal ==
    /\ wpc = "storeTerminal"
    /\ status' = term
    /\ wpc' = IF term = RefreshStatusCancelled THEN "returned" ELSE "stampEnd"
    /\ UNCHANGED <<accountIDs, startTime, endTime, lastCheck, checkCount,
                   cancelFunc, cancelled, lastError, progress, now,
                   parentDone, waitLocals, ctxCancelled, tickerVars,
                   cancelVars, obsVars, waitHist>>

\* now := time.Now(); j.endTime = &now; return
WaitStampEnd ==
    /\ wpc = "stampEnd"
    /\ endTime' = now
    /\ wpc' = "returned"
    /\ UNCHANGED <<accountIDs, startTime, status, lastCheck, checkCount,
                   cancelFunc, cancelled, lastError, progress, now,
                   parentDone, waitLocals, ctxCancelled, tickerVars,
                   cancelVars, obsVars, waitHist>>

(***************************************************************************)
(* Cancel(ctx).                                                            *)
(***************************************************************************)
\* the cancel function of the second Wait's context
OtherCtx == -1

\* j.cancelled.Store(true)
CancelCall ==
    /\ cpc = "idle"
    /\ cancelCalls < MaxCancels
    /\ cancelled' = TRUE
    /\ cancelCalls' = cancelCalls + 1
    /\ cPre' = [status |-> status, endTime |-> endTime,
                quiet |-> ~WaitInFlight]
    /\ cpc' = "callFunc"
    /\ wCancelDuring' = (wCancelDuring \/ WaitPolling)
    /\ UNCHANGED <<accountIDs, startTime, endTime, status, lastCheck,
                   checkCount, cancelFunc, lastError, progress, now,
                   parentDone, wpc, waitLocals, ctxCancelled, tickerVars,
                   obsVars, waitCalls, probes, allProbes, lastOutcome,
                   sawError, wCancelBefore, probePre>>

\* if j.cancelFunc != nil { j.cancelFunc() }
CancelCallFunc ==
    /\ cpc = "callFunc"
    /\ ctxCancelled' = IF cancelFunc # 0 /\ cancelFunc = waitCalls
                       THEN TRUE ELSE ctxCancelled
    /\ w2' = IF cancelFunc = OtherCtx
             THEN [w2 EXCEPT !.ctxCancelled = TRUE] ELSE w2
    /\ cpc' = "store"
    /\ UNCHANGED <<jobVars, now, parentDone, wpc, waitLocals, tickerVars,
                   cPre, cancelCalls, icRet, ic, held, mgrVars, threads, gm,
                   waitHist>>

\* j.status.Store(RefreshStatusCancelled)
CancelStore ==
    /\ cpc = "store"
    /\ status' = RefreshStatusCancelled
    /\ cpc' = "stamp"
    /\ UNCHANGED <<accountIDs, startTime, endTime, lastCheck, checkCount,
                   cancelFunc, cancelled, lastError, progress, now,
                   parentDone, wpc, waitLocals, ctxCancelled, tickerVars,
                   cPre, cancelCalls, obsVars, waitHist>>

\* now := time.Now(); j.endTime = &now; return nil
CancelStamp ==
    /\ cpc = "stamp"
    /\ endTime' = now
    /\ cpc' = "idle"
    /\ UNCHANGED <<accountIDs, startTime, status, lastCheck, checkCount,
                   cancelFunc, cancelled, lastError, progress, now,
                   parentDone, wpc, waitLocals, ctxCancelled, tickerVars,
                   cPre, cancelCalls, obsVars, waitHist>>

(***************************************************************************)
(* IsComplete(ctx), called with a live context.                            *)
(***************************************************************************)
\* status := j.Status()
IsCompleteCall(maxObs) ==
    /\ ic.pc = "idle"
    /\ icRet.calls < maxObs
    /\ ic' = [pc |-> "switch", status |-> status, probes |-> 0, resp |-> <<>>]
    /\ icRet' = [icRet EXCEPT !.calls = IF @ < MaxObs THEN @ + 1 ELSE @]
    /\ UNCHANGED <<jobVars, now, parentDone, wpc, waitLocals, ctxCancelled,
                   tickerVars, cancelVars, waitHist, sideVars>>

\* the switch on the status read, with a first case that starts the job
IsCompleteSwitchStarts ==
    /\ ic.pc = "switch"
    /\ IF ic.status = RefreshStatusCompleted
       THEN /\ icRet' = [icRet EXCEPT !.complete = TRUE, !.err = NoErr]
            /\ ic' = [ic EXCEPT !.pc = "idle"]
            /\ UNCHANGED <<lastCheck, status>>
       ELSE IF Terminal(ic.status)
       THEN /\ icRet' = [icRet EXCEPT !.complete = FALSE, !.err = lastError]
            /\ ic' = [ic EXCEPT !.pc = "idle"]
            /\ UNCHANGED <<lastCheck, status>>
       ELSE IF ic.status = RefreshStatusPending
       THEN /\ icRet' = [icRet EXCEPT !.complete = FALSE, !.err = NoErr]
            /\ ic' = [ic EXCEPT !.pc = "idle"]
            /\ status' = RefreshStatusInProgress
            /\ UNCHANGED lastCheck
       ELSE /\ lastCheck' = now
            /\ ic' = [ic EXCEPT !.pc = "probing", !.probes = @ + 1]
            /\ UNCHANGED <<icRet, status>>
    /\ UNCHANGED <<accountIDs, startTime, endTime, checkCount,
                   cancelFunc, cancelled, lastError, progress, now,
                   parentDone, wpc, waitLocals, ctxCancelled, tickerVars,
                   cancelVars, waitHist, sideVars>>

\* switch status { ... }: the terminal and Pending cases return; the
\* InProgress case enters checkStatus (j.lastCheck = time.Now()) and sends
\* its request
IsCompleteSwitch ==
    /\ ic.pc = "switch"
    /\ IF ic.status = RefreshStatusCompleted
       THEN /\ icRet' = [icRet EXCEPT !.complete = TRUE, !.err = NoErr]
            /\ ic' = [ic EXCEPT !.pc = "idle"]
            /\ UNCHANGED <<lastCheck, status>>
       ELSE IF Terminal(ic.status)
       THEN /\ icRet' = [icRet EXCEPT !.complete = FALSE, !.err = lastError]
            /\ ic' = [ic EXCEPT !.pc = "idle"]
            /\ UNCHANGED <<lastCheck, status>>
       ELSE IF ic.status = RefreshStatusPending
       THEN /\ icRet' = [icRet EXCEPT !.complete = FALSE, !.err = NoErr]
            /\ ic' = [ic EXCEPT !.pc = "idle"]
            /\ UNCHANGED <<lastCheck, status>>
       ELSE /\ lastCheck' = now
            /\ ic' = [ic EXCEPT !.pc = "probing", !.probes = @ + 1]
            /\ UNCHANGED <<icRet, status>>
    /\ UNCHANGED <<accountIDs, startTime, endTime, checkCount,
                   cancelFunc, cancelled, lastError, progress, now,
                   parentDone, wpc, waitLocals, ctxCancelled, tickerVars,
                   cancelVars, waitHist, sideVars>>

\* checkStatus returns (false, errors.Wrap(err, ...)), which IsComplete returns
IsCompleteProbeError(e) ==
    /\ ic.pc = "probing"
    /\ icRet' = [icRet EXCEPT !.complete = FALSE, !.err = Wrap(e)]
    /\ ic' = [ic EXCEPT !.pc = "idle", !.resp = <<e>>]
    /\ UNCHANGED <<jobVars, now, parentDone, wpc, waitLocals, ctxCancelled,
                   tickerVars, cancelVars, waitHist, sideVars>>

\* checkStatus updates the progress map and returns (allComplete, nil),
\* which IsComplete returns
IsCompleteProbeOK(accounts) ==
    /\ ic.pc = "probing"
    /\ progress' = UpdateProgress(progress, accounts, startTime)
    /\ icRet' = [icRet EXCEPT !.complete = AllComplete(accounts, startTime),
                              !.err = NoErr]
    /\ ic' = [ic EXCEPT !.pc = "idle", !.resp = accounts]
    /\ UNCHANGED <<accountIDs, startTime, endTime, status, lastCheck,
                   checkCount, cancelFunc, cancelled, lastError, now,
                   parentDone, wpc, waitLocals, ctxCancelled, tickerVars,
                   cancelVars, waitHist, sideVars>>

IsComplete(maxObs) ==
    \/ IsCompleteCall(maxObs)
    \/ IsCompleteSwitch
    \/ \E e \in ProbeErrors : IsCompleteProbeError(e)
    \/ \E accounts \in Responses(accountIDs, startTime) : IsCompleteProbeOK(accounts)

(***************************************************************************)
(* GetMetrics(): the fields are read one after the other, with no lock     *)
(* held from one read to the next.                                         *)
(***************************************************************************)
metricsFrame == <<now, parentDone, wpc, waitLocals, ctxCancelled, tickerVars,
                  cancelVars, waitHist, icRet, ic, held, mgrVars, w2,
                  threads>>

\* status := j.Status()
GetMetricsCall(maxCalls) ==
    /\ gm.pc = "idle"
    /\ gm.calls < maxCalls
    /\ gm' = [pc |-> "duration", calls |-> gm.calls + 1,
              afterWait |-> (wpc = "returned"), todo |-> {},
              m |-> [NoMetrics EXCEPT !.Status = status]]
    /\ UNCHANGED <<jobVars, metricsFrame>>

\* duration := time.Since(j.startTime); if j.endTime != nil { ... }
GetMetricsDuration ==
    /\ gm.pc = "duration"
    /\ gm' = [gm EXCEPT !.pc = "progress",
                        !.m.Duration = IF endTime # NoTime
                                       THEN endTime - startTime
                                       ELSE now - startTime]
    /\ UNCHANGED <<jobVars, metricsFrame>>

\* the operands of the return literal that read a field another goroutine
\* writes: the calls atomic.LoadInt32 and j.getError() are evaluated in
\* that order, the plain reads of j.endTime and j.lastCheck at any point
\* before, between or after them
LiteralReads == {"endTime", "checkCount", "lastCheck", "lastError"}

\* progress := j.GetProgress() and the count of the completed entries
GetMetricsProgress ==
    /\ gm.pc = "progress"
    /\ gm' = [gm EXCEPT !.pc = "literal", !.todo = LiteralReads,
                        !.m.CompletedCount = CompletedCount]
    /\ UNCHANGED <<jobVars, metricsFrame>>

\* EndTime: j.endTime
GetMetricsEndTime ==
    /\ gm.pc = "literal"
    /\ "endTime" \in gm.todo
    /\ gm' = [gm EXCEPT !.todo = gm.todo \ {"endTime"}, !.m.EndTime = endTime]
    /\ UNCHANGED <<jobVars, metricsFrame>>

\* CheckCount: int(atomic.LoadInt32(&j.checkCount))
GetMetricsCheckCount ==
    /\ gm.pc = "literal"
    /\ "checkCount" \in gm.todo
    /\ gm' = [gm EXCEPT !.todo = gm.todo \ {"checkCount"},
                        !.m.CheckCount = checkCount]
    /\ UNCHANGED <<jobVars, metricsFrame>>

\* LastCheck: j.lastCheck, the first word of the time.Time
GetMetricsLastCheck ==
    /\ gm.pc = "literal"
    /\ "lastCheck" \in gm.todo
    /\ gm' = [gm EXCEPT !.todo = (gm.todo \ {"lastCheck"}) \cup {"lastCheckRest"},
                        !.m.LastCheck = lastCheck]
    /\ UNCHANGED <<jobVars, metricsFrame>>

\* LastCheck: j.lastCheck, the other words of the time.Time: the copy has
\* words of two values when checkStatus has assigned the field in between
GetMetricsLastCheckRest ==
    /\ gm.pc = "literal"
    /\ "lastCheckRest" \in gm.todo
    /\ gm' = [gm EXCEPT !.todo = gm.todo \ {"lastCheckRest"},
                        !.m.LastCheck = IF lastCheck = gm.m.LastCheck
                                        THEN lastCheck ELSE TornTime]
    /\ UNCHANGED <<jobVars, metricsFrame>>

\* LastError: j.getError(), called after atomic.LoadInt32
GetMetricsLastError ==
    /\ gm.pc = "literal"
    /\ "lastError" \in gm.todo
    /\ "checkCount" \notin gm.todo
    /\ gm' = [gm EXCEPT !.todo = gm.todo \ {"lastError"},
                        !.m.LastError = lastError]
    /\ UNCHANGED <<jobVars, metricsFrame>>

\* the record is returned
GetMetricsReturn ==
    /\ gm.pc = "literal"
    /\ gm.todo = {}
    /\ gm' = [gm EXCEPT !.pc = "idle",
                        !.m.ID = startTime \div Second,
                        !.m.StartTime = startTime,
                        !.m.AccountCount = Len(accountIDs)]
    /\ UNCHANGED <<jobVars, metricsFrame>>

GetMetrics(maxCalls) ==
    \/ GetMetricsCall(maxCalls)
    \/ GetMetricsDuration
    \/ GetMetricsProgress
    \/ GetMetricsEndTime
    \/ GetMetricsCheckCount
    \/ GetMetricsLastCheck
    \/ GetMetricsLastCheckRest
    \/ GetMetricsLastError
    \/ GetMetricsReturn

\* a GetMetrics call has returned
MetricsReturned == gm.calls > 0 /\ gm.pc = "idle"

(***************************************************************************)
(* A caller of GetProgress that edits the map it was given.                *)
(***************************************************************************)
GetProgressCall ==
    /\ held.calls < MaxSnaps
    /\ held' = CopyMap(GetProgress, held.calls + 1)
    /\ UNCHANGED <<jobVars, now, parentDone, wpc, waitLocals, ctxCancelled,
                   tickerVars, cancelVars, waitHist, icRet, ic, mgrVars,
                   w2, threads, gm>>

\* returned[k] = v
CallerPut(k, v) ==
    /\ held.ref # "none"
    /\ held.edits < MaxEdits
    /\ IF held.ref = "job"
       THEN /\ progress' = Put(progress, k, v)
            /\ held' = [held EXCEPT !.edits = @ + 1]
       ELSE /\ held' = [held EXCEPT !.m = Put(@, k, v), !.edits = @ + 1]
            /\ UNCHANGED progress
    /\ UNCHANGED <<accountIDs, startTime, endTime, status, lastCheck,
                   checkCount, cancelFunc, cancelled, lastError, now,
                   parentDone, wpc, waitLocals, ctxCancelled, tickerVars,
                   cancelVars, waitHist, icRet, ic, mgrVars, w2, threads, gm>>

\* delete(returned, k)
CallerDelete(k) ==
    /\ held.ref # "none"
    /\ held.edits < MaxEdits
    /\ IF held.ref = "job"
       THEN /\ progress' = Remove(progress, k)
            /\ held' = [held EXCEPT !.edits = @ + 1]
       ELSE /\ held' = [held EXCEPT !.m = Remove(@, k), !.edits = @ + 1]
            /\ UNCHANGED progress
    /\ UNCHANGED <<accountIDs, startTime, endTime, status, lastCheck,
                   checkCount, cancelFunc, cancelled, lastError, now,
                   parentDone, wpc, waitLocals, ctxCancelled, tickerVars,
                   cancelVars, waitHist, icRet, ic, mgrVars, w2, threads, gm>>

(***************************************************************************)
(* A second goroutine calling Wait(ctx, timeout) on the same job.          *)
(***************************************************************************)
\* waitCtx, cancel := context.WithTimeout(ctx, timeout)
Wait2Call(t) ==
    /\ w2.pc = "idle"
    /\ w2' = [Wait2Idle EXCEPT !.pc = "setCancelFunc", !.deadline = now + t]
    /\ UNCHANGED <<jobVars, now, parentDone, wpc, waitLocals, ctxCancelled,
                   tickerVars, cancelVars, waitHist, icRet, ic, held,
                   mgrVars, threads, gm>>

\* the caller cancels the context it passed to the second Wait
Wait2ParentCancel ==
    /\ Wait2InFlight
    /\ ~w2.parentDone
    /\ w2' = [w2 EXCEPT !.parentDone = TRUE]
    /\ UNCHANGED <<jobVars, now, parentDone, wpc, waitLocals, ctxCancelled,
                   tickerVars, cancelVars, waitHist, icRet, ic, held,
                   mgrVars, threads, gm>>

\* j.cancelFunc = cancel
Wait2SetCancelFunc ==
    /\ w2.pc = "setCancelFunc"
    /\ cancelFunc' = OtherCtx
    /\ w2' = [w2 EXCEPT !.pc = "storeInProgress"]
    /\ UNCHANGED <<accountIDs, startTime, endTime, status, lastCheck,
                   checkCount, cancelled, lastError, progress, now,
                   parentDone, wpc, waitLocals, ctxCancelled, tickerVars,
                   cancelVars, waitHist, icRet, ic, held, mgrVars, threads, gm>>

\* j.status.Store(RefreshStatusInProgress); ticker := time.NewTicker(initialInterval)
Wait2StoreInProgress ==
    /\ w2.pc = "storeInProgress"
    /\ status' = RefreshStatusInProgress
    /\ w2' = [w2 EXCEPT !.pc = "select",
                        !.currentInterval = initialInterval,
                        !.nextTick = now + initialInterval,
                        !.tickReady = FALSE]
    /\ UNCHANGED <<accountIDs, startTime, endTime, lastCheck, checkCount,
                   cancelFunc, cancelled, lastError, progress, now,
                   parentDone, wpc, waitLocals, ctxCancelled, tickerVars,
                   cancelVars, waitHist, icRet, ic, held, mgrVars, threads, gm>>

\* case <-waitCtx.Done(): the branch is chosen by j.cancelled.Load()
Wait2CtxDone ==
    /\ w2.pc = "select"
    /\ Ctx2Done
    /\ w2' = [w2 EXCEPT !.pc = "storeTerminal",
                        !.term = IF cancelled THEN RefreshStatusCancelled
                                 ELSE RefreshStatusTimeout,
                        !.ret = IF cancelled THEN ErrJobCancelled
                                ELSE ErrRefreshTimeout]
    /\ UNCHANGED <<jobVars, now, parentDone, wpc, waitLocals, ctxCancelled,
                   tickerVars, cancelVars, waitHist, icRet, ic, held,
                   mgrVars, threads, gm>>

\* case <-ticker.C: checkStatus starts (j.lastCheck = time.Now()) and
\* sends its request
Wait2Tick(maxProbes) ==
    /\ w2.pc = "select"
    /\ w2.tickReady
    /\ w2.probes < maxProbes
    /\ lastCheck' = now
    /\ w2' = [w2 EXCEPT !.pc = "probing", !.tickReady = FALSE,
                        !.probes = w2.probes + 1]
    /\ UNCHANGED <<accountIDs, startTime, endTime, status, checkCount,
                   cancelFunc, cancelled, lastError, progress, now,
                   parentDone, wpc, waitLocals, ctxCancelled, tickerVars,
                   cancelVars, waitHist, icRet, ic, held, mgrVars, threads, gm>>

\* errors executeGraphQL can return for a request made with the second
\* Wait's waitCtx
Wait2ProbeErrors ==
    ProbeErrors
        \cup (IF w2.ctxCancelled \/ w2.parentDone THEN {CtxCanceled} ELSE {})
        \cup (IF now >= w2.deadline THEN {CtxDeadlineExceeded} ELSE {})

\* checkStatus returns (false, errors.Wrap(err, ...))
Wait2ProbeError(e) ==
    /\ w2.pc = "probing"
    /\ w2' = [w2 EXCEPT !.pc = "setError", !.perr = Wrap(e)]
    /\ UNCHANGED <<jobVars, now, parentDone, wpc, waitLocals, ctxCancelled,
                   tickerVars, cancelVars, waitHist, icRet, ic, held,
                   mgrVars, threads, gm>>

\* checkStatus updates the progress map and returns (allComplete, nil)
Wait2ProbeOK(accounts) ==
    /\ w2.pc = "probing"
    /\ progress' = UpdateProgress(progress, accounts, startTime)
    /\ w2' = IF AllComplete(accounts, startTime)
             THEN [w2 EXCEPT !.pc = "storeTerminal", !.perr = NoErr,
                             !.term = RefreshStatusCompleted, !.ret = NoErr]
             ELSE [w2 EXCEPT !.pc = "count", !.perr = NoErr]
    /\ UNCHANGED <<accountIDs, startTime, endTime, status, lastCheck,
                   checkCount, cancelFunc, cancelled, lastError, now,
                   parentDone, wpc, waitLocals, ctxCancelled, tickerVars,
                   cancelVars, waitHist, icRet, ic, held, mgrVars, threads, gm>>

\* j.setError(err); if !IsRetryable(err) { fail } else { continue }
Wait2SetError ==
    /\ w2.pc = "setError"
    /\ lastError' = w2.perr
    /\ w2' = IF ~IsRetryable(w2.perr)
             THEN [w2 EXCEPT !.pc = "storeTerminal",
                             !.term = RefreshStatusFailed, !.ret = w2.perr]
             ELSE [w2 EXCEPT !.pc = "select"]
    /\ UNCHANGED <<accountIDs, startTime, endTime, status, lastCheck,
                   checkCount, cancelFunc, cancelled, progress, now,
                   parentDone, wpc, waitLocals, ctxCancelled, tickerVars,
                   cancelVars, waitHist, icRet, ic, held, mgrVars, threads, gm>>

\* atomic.AddInt32(&j.checkCount, 1)
Wait2Count ==
    /\ w2.pc = "count"
    /\ checkCount' = checkCount + 1
    /\ w2' = [w2 EXCEPT !.pc = "backoff"]
    /\ UNCHANGED <<accountIDs, startTime, endTime, status, lastCheck,
                   cancelFunc, cancelled, lastError, progress, now,
                   parentDone, wpc, waitLocals, ctxCancelled, tickerVars,
                   cancelVars, waitHist, icRet, ic, held, mgrVars, threads, gm>>

\* if j.checkCount%3 == 0 && currentInterval < maxInterval: the backoff of
\* the interval and ticker.Reset
Wait2Backoff ==
    /\ w2.pc = "backoff"
    /\ w2' = IF checkCount % 3 = 0 /\ w2.currentInterval < maxInterval
             THEN [w2 EXCEPT !.pc = "select",
                             !.currentInterval = NextInterval(w2.currentInterval),
                             !.nextTick = now + NextInterval(w2.currentInterval),
                             !.tickReady = FALSE]
             ELSE [w2 EXCEPT !.pc = "select"]
    /\ UNCHANGED <<jobVars, now, parentDone, wpc, waitLocals, ctxCancelled,
                   tickerVars, cancelVars, waitHist, icRet, ic, held,
                   mgrVars, threads, gm>>

\* j.status.Store(...) of a terminal status; the Cancelled branch returns
\* right after it
Wait2StoreTerminal ==
    /\ w2.pc = "storeTerminal"
    /\ status' = w2.term
    /\ w2' = [w2 EXCEPT !.pc = IF w2.term = RefreshStatusCancelled
                               THEN "returned" ELSE "stampEnd"]
    /\ UNCHANGED <<accountIDs, startTime, endTime, lastCheck, checkCount,
                   cancelFunc, cancelled, lastError, progress, now,
                   parentDone, wpc, waitLocals, ctxCancelled, tickerVars,
                   cancelVars, waitHist, icRet, ic, held, mgrVars, threads, gm>>

\* now := time.Now(); j.endTime = &now; return
Wait2StampEnd ==
    /\ w2.pc = "stampEnd"
    /\ endTime' = now
    /\ w2' = [w2 EXCEPT !.pc = "returned"]
    /\ UNCHANGED <<accountIDs, startTime, status, lastCheck, checkCount,
                   cancelFunc, cancelled, lastError, progress, now,
                   parentDone, wpc, waitLocals, ctxCancelled, tickerVars,
                   cancelVars, waitHist, icRet, ic, held, mgrVars, threads, gm>>

\* the steps of the second Wait once it has been called
Wait2Step(maxProbes) ==
    \/ Wait2SetCancelFunc
    \/ Wait2StoreInProgress
    \/ Wait2CtxDone
    \/ Wait2Tick(maxProbes)
    \/ \E e \in Wait2ProbeErrors : Wait2ProbeError(e)
    \/ \E accounts \in Responses(accountIDs, startTime) : Wait2ProbeOK(accounts)
    \/ Wait2SetError
    \/ Wait2Count
    \/ Wait2Backoff
    \/ Wait2StoreTerminal
    \/ Wait2StampEnd

Wait2(maxProbes) ==
    \/ \E t \in Timeouts : Wait2Call(t)
    \/ Wait2ParentCancel
    \/ Wait2Step(maxProbes)

(***************************************************************************)
(* Accesses to the fields of the job made without a lock or an atomic.     *)
(***************************************************************************)
\* the plain access the next step of the goroutine in Wait makes
WaitAccesses ==
    IF wpc = "setCancelFunc" THEN {<<"cancelFunc", "write">>}
    ELSE IF wpc = "stampEnd" THEN {<<"endTime", "write">>}
    ELSE IF wpc = "select" /\ tickReady THEN {<<"lastCheck", "write">>}
    ELSE IF wpc = "backoff" THEN {<<"checkCount", "read">>}
    ELSE {}

\* the plain access the next step of the goroutine in Cancel makes
CancelAccesses ==
    IF cpc = "callFunc" THEN {<<"cancelFunc", "read">>}
    ELSE IF cpc = "stamp" THEN {<<"endTime", "write">>}
    ELSE {}

\* the plain access the next step of the goroutine in IsComplete makes
IsCompleteAccesses ==
    IF ic.pc = "switch" /\ ic.status = RefreshStatusInProgress
    THEN {<<"lastCheck", "write">>}
    ELSE {}

\* two goroutines are about to access the same field, one of them writing
Conflict(A, B) ==
    \E a \in A, b \in B : a[1] = b[1] /\ (a[2] = "write" \/ b[2] = "write")

(***************************************************************************)
(* RefreshJobManager and the other jobs of the process.                    *)
(***************************************************************************)
\* fmt.Sprintf("refresh-%d", time.Now().Unix()): the id is the second
JobID(t) == t \div Second

AllJobs == 0..Len(others)

\* job.ID(), job.Status() and job.endTime of the job n
JobIDOf(n) == IF n = 0 THEN JobID(startTime) ELSE others[n].id
JobStatus(n) == IF n = 0 THEN status ELSE others[n].status
JobEndTime(n) == IF n = 0 THEN endTime ELSE others[n].endTime

\* time passes while no operation of this job is running
Pass(maxQuanta) ==
    /\ ~WaitInFlight
    /\ cpc = "idle"
    /\ now + HalfSecond <= StartClock + maxQuanta * HalfSecond
    /\ now' = now + HalfSecond
    /\ UNCHANGED <<jobVars, parentDone, wpc, waitLocals, ctxCancelled,
                   tickerVars, cancelVars, waitHist, obsVars>>

\* what changes when a step of another job is taken: nothing but others
otherFrame == <<jobVars, now, parentDone, wpc, waitLocals, ctxCancelled,
                tickerVars, cancelVars, waitHist, icRet, ic, held, mgr,
                cleanupRet, w2, threads, gm>>

\* newRefreshJob for another job
NewJob ==
    /\ Len(others) < MaxOthers
    /\ others' = Append(others, [id |-> JobID(now), startTime |-> now,
                                  status |-> RefreshStatusPending,
                                  endTime |-> NoTime, cancelled |-> FALSE,
                                  wpc |-> "idle", wstart |-> NoTime,
                                  term |-> "", cpc |-> "idle"])
    /\ UNCHANGED otherFrame

\* Wait on another job, up to its select: j.status.Store(InProgress) and
\* time.NewTicker(initialInterval)
OtherWaitStart(n) ==
    /\ n \in 1..Len(others)
    /\ others[n].wpc = "idle"
    /\ others' = [others EXCEPT ![n].status = RefreshStatusInProgress,
                                 ![n].wpc = "select", ![n].wstart = now]
    /\ UNCHANGED otherFrame

\* case <-waitCtx.Done() of another job (its deadline, its parent context
\* or its Cancel) and j.cancelled.Load()
OtherWaitDone(n) ==
    /\ n \in 1..Len(others)
    /\ others[n].wpc = "select"
    /\ others' = [others EXCEPT ![n].wpc = "store",
                                 ![n].term = IF others[n].cancelled
                                             THEN RefreshStatusCancelled
                                             ELSE RefreshStatusTimeout]
    /\ UNCHANGED otherFrame

\* case <-ticker.C of another job where the probe ends the loop: the first
\* tick comes initialInterval after the ticker was made
OtherWaitTick(n, s) ==
    /\ n \in 1..Len(others)
    /\ others[n].wpc = "select"
    /\ now >= others[n].wstart + initialInterval
    /\ s \in {RefreshStatusCompleted, RefreshStatusFailed}
    /\ others' = [others EXCEPT ![n].wpc = "store", ![n].term = s]
    /\ UNCHANGED otherFrame

\* j.status.Store(...) of the branch taken; the cancelled branch returns
OtherWaitStore(n) ==
    /\ n \in 1..Len(others)
    /\ others[n].wpc = "store"
    /\ others' = [others EXCEPT ![n].status = others[n].term,
                                 ![n].wpc = IF others[n].term = RefreshStatusCancelled
                                            THEN "idle" ELSE "stamp"]
    /\ UNCHANGED otherFrame

\* now := time.Now(); j.endTime = &now; return
OtherWaitStamp(n) ==
    /\ n \in 1..Len(others)
    /\ others[n].wpc = "stamp"
    /\ others' = [others EXCEPT ![n].endTime = now, ![n].wpc = "idle"]
    /\ UNCHANGED otherFrame

WaitOther(n) ==
    \/ OtherWaitStart(n)
    \/ OtherWaitDone(n)
    \/ \E s \in {RefreshStatusCompleted, RefreshStatusFailed} : OtherWaitTick(n, s)
    \/ OtherWaitStore(n)
    \/ OtherWaitStamp(n)

\* Cancel on another job: j.cancelled.Store(true)
OtherCancelFlag(n) ==
    /\ n \in 1..Len(others)
    /\ others[n].cpc = "idle"
    /\ others' = [others EXCEPT ![n].cancelled = TRUE, ![n].cpc = "store"]
    /\ UNCHANGED otherFrame

\* j.status.Store(RefreshStatusCancelled)
OtherCancelStore(n) ==
    /\ n \in 1..Len(others)
    /\ others[n].cpc = "store"
    /\ others' = [others EXCEPT ![n].status = RefreshStatusCancelled,
                                 ![n].cpc = "stamp"]
    /\ UNCHANGED otherFrame

\* now := time.Now(); j.endTime = &now; return nil
OtherCancelStamp(n) ==
    /\ n \in 1..Len(others)
    /\ others[n].cpc = "stamp"
    /\ others' = [others EXCEPT ![n].endTime = now, ![n].cpc = "idle"]
    /\ UNCHANGED otherFrame

CancelOther(n) ==
    \/ OtherCancelFlag(n)
    \/ OtherCancelStore(n)
    \/ OtherCancelStamp(n)

\* m.jobs[job.ID()] = job
AddJob(n) ==
    /\ n \in AllJobs
    /\ \A id \in DOMAIN mgr : mgr[id] # n
    /\ mgr' = Put(mgr, JobIDOf(n), n)
    /\ UNCHANGED <<jobVars, now, parentDone, wpc, waitLocals, ctxCancelled,
                   tickerVars, cancelVars, waitHist, icRet, ic, held, others,
                   cleanupRet, w2, threads, gm>>

GetJob(id) == IF id \in DOMAIN mgr THEN <<mgr[id], TRUE>> ELSE <<0, FALSE>>

ListJobs == {mgr[id] : id \in DOMAIN mgr}

\* the test of CleanupCompleted with >= for >
RemovableAtAge(n, olderThan) ==
    /\ Terminal(JobStatus(n))
    /\ JobEndTime(n) # NoTime
    /\ now - JobEndTime(n) >= olderThan

\* the test of CleanupCompleted's loop body
Removable(n, olderThan) ==
    /\ Terminal(JobStatus(n))
    /\ JobEndTime(n) # NoTime
    /\ now - JobEndTime(n) > olderThan

CleanupCompleted(olderThan) ==
    /\ cleanupRet.calls < MaxCleanups
    /\ LET gone == {id \in DOMAIN mgr : Removable(mgr[id], olderThan)}
       IN /\ mgr' = [id \in DOMAIN mgr \ gone |-> mgr[id]]
          /\ cleanupRet' = [calls |-> cleanupRet.calls + 1,
                            olderThan |-> olderThan,
                            removed |-> Cardinality(gone),
                            kept |-> Cardinality(DOMAIN mgr \ gone)]
    /\ UNCHANGED <<jobVars, now, parentDone, wpc, waitLocals, ctxCancelled,
                   tickerVars, cancelVars, waitHist, icRet, ic, held, others,
                   w2, threads, gm>>

Ages == {0, HalfSecond}

(***************************************************************************)
(* The operations at the granularity of their locks: each operation is the *)
(* sequence of its lock operations and of its accesses to the fields of    *)
(* the job and to the registry, in program order.  progressMux, errorLock  *)
(* and mu are read-write locks.                                            *)
(***************************************************************************)
Instr(kind, on) == [kind |-> kind, on |-> on]

\* GetProgress: RLock, the copy loop, the deferred RUnlock
GetProgressProgram ==
    <<Instr("RLock", "progressMux"), Instr("read", "progress"),
      Instr("RUnlock", "progressMux")>>

\* getError: RLock, the read, the deferred RUnlock
GetErrorProgram ==
    <<Instr("RLock", "errorLock"), Instr("read", "lastError"),
      Instr("RUnlock", "errorLock")>>

\* setError: Lock, the write, the deferred Unlock
SetErrorProgram ==
    <<Instr("Lock", "errorLock"), Instr("write", "lastError"),
      Instr("Unlock", "errorLock")>>

\* checkStatus: lastCheck, the request, then the progress loop under Lock
CheckStatusProgram ==
    <<Instr("write", "lastCheck"), Instr("request", "provider"),
      Instr("Lock", "progressMux"), Instr("write", "progress"),
      Instr("Unlock", "progressMux")>>

\* the orders in which the return literal of GetMetrics evaluates the
\* operands of LiteralReads: atomic.LoadInt32 before j.getError()
LiteralOrders ==
    {o \in [1..4 -> LiteralReads] :
        /\ \A i, k \in 1..4 : i # k => o[i] # o[k]
        /\ \A i, k \in 1..4 :
              (o[i] = "checkCount" /\ o[k] = "lastError") => i < k}

\* the accesses of one operand of the return literal
LiteralProgram(operand) ==
    IF operand = "lastError" THEN GetErrorProgram
    ELSE <<Instr("read", operand)>>

\* GetMetrics that evaluates its return literal while it holds the
\* progress lock
GetMetricsNested(order) ==
    <<Instr("read", "status"), Instr("read", "endTime"),
      Instr("RLock", "progressMux"), Instr("read", "progress")>>
        \o LiteralProgram(order[1]) \o LiteralProgram(order[2])
        \o LiteralProgram(order[3]) \o LiteralProgram(order[4])
        \o <<Instr("RUnlock", "progressMux")>>

\* GetMetrics: Status(), endTime for the duration, GetProgress(), then the
\* operands of the return literal in the order given
GetMetricsProgram(order) ==
    <<Instr("read", "status"), Instr("read", "endTime")>>
        \o GetProgressProgram
        \o LiteralProgram(order[1]) \o LiteralProgram(order[2])
        \o LiteralProgram(order[3]) \o LiteralProgram(order[4])

\* AddJob: Lock, job.ID(), the map write, the deferred Unlock
AddJobProgram ==
    <<Instr("Lock", "mu"), Instr("read", "id"), Instr("write", "jobs"),
      Instr("Unlock", "mu")>>

\* GetJob and ListJobs: RLock, the map read, the deferred RUnlock
GetJobProgram ==
    <<Instr("RLock", "mu"), Instr("read", "jobs"), Instr("RUnlock", "mu")>>

\* CleanupCompleted: Lock and time.Now(), range m.jobs, job.Status(),
\* job.endTime, delete, the deferred Unlock (the loop body for the one job
\* the registry holds); the instructions after a test that fails are skipped
CleanupProgram ==
    <<Instr("Lock", "mu"), Instr("read", "jobs"), Instr("read", "status"),
      Instr("read", "endTime"), Instr("write", "jobs"), Instr("Unlock", "mu")>>

Ops == {"GetProgress", "getError", "setError", "checkStatus", "GetMetrics",
        "AddJob", "GetJob", "ListJobs", "CleanupCompleted"}

Program(op, arg) ==
    CASE op = "GetProgress" -> GetProgressProgram
      [] op = "getError" -> GetErrorProgram
      [] op = "setError" -> SetErrorProgram
      [] op = "checkStatus" -> CheckStatusProgram
      [] op = "GetMetrics" -> GetMetricsProgram(arg)
      [] op = "AddJob" -> AddJobProgram
      [] op = "GetJob" -> GetJobProgram
      [] op = "ListJobs" -> GetJobProgram
      [] op = "CleanupCompleted" -> CleanupProgram

\* the arguments an operation is called with: CleanupCompleted's olderThan,
\* AddJob's job, and for GetMetrics the order its build evaluates the
\* return literal in; 0 for the others
ArgsOf(op) ==
    IF op = "CleanupCompleted" THEN Ages
    ELSE IF op = "GetMetrics" THEN LiteralOrders
    ELSE {0}

\* the program of the operation the goroutine t is in
ProgramOf(t) == Program(threads[t].op, threads[t].arg)

InOp(t) == threads[t].op # "none"

\* the goroutine has executed its last instruction and is about to return
AtReturn(t) == InOp(t) /\ threads[t].pc > Len(ProgramOf(t))

NextInstr(t) == ProgramOf(t)[threads[t].pc]

\* the locks acquired by an instruction of the given kinds among the first
\* pc - 1 of prog and not released since
Acquired(prog, pc, kinds) ==
    {prog[i].on : i \in {i \in 1..(pc - 1) :
        /\ i <= Len(prog)
        /\ prog[i].kind \in kinds
        /\ \A j \in (i + 1)..(pc - 1) :
              ~(/\ j <= Len(prog)
                /\ prog[j].kind \in {"Unlock", "RUnlock"}
                /\ prog[j].on = prog[i].on)}}

HeldBy(t) ==
    IF InOp(t)
    THEN Acquired(ProgramOf(t), threads[t].pc, {"Lock", "RLock"})
    ELSE {}

WriteHeldBy(t) ==
    IF InOp(t)
    THEN Acquired(ProgramOf(t), threads[t].pc, {"Lock"})
    ELSE {}

\* the goroutines that keep t from acquiring the lock it is about to take
Blockers(t) ==
    IF ~InOp(t) \/ AtReturn(t) THEN {}
    ELSE IF NextInstr(t).kind = "Lock"
         THEN {u \in Goroutines : NextInstr(t).on \in HeldBy(u)}
    ELSE IF NextInstr(t).kind = "RLock"
         THEN {u \in Goroutines : NextInstr(t).on \in WriteHeldBy(u)}
    ELSE {}

Blocked(t) == Blockers(t) # {}

lockFrame == <<jobVars, now, parentDone, wpc, waitLocals, ctxCancelled,
               tickerVars, cancelVars, waitHist, icRet, ic, held, others,
               cleanupRet, w2, gm>>

\* a goroutine calls an operation
OpCall(t, op, arg) ==
    /\ ~InOp(t)
    /\ threads' = [threads EXCEPT ![t] = [op |-> op, pc |-> 1, arg |-> arg,
                                          at |-> NoTime]]
    /\ UNCHANGED <<mgr, lockFrame>>

\* the test of CleanupCompleted's loop that the instruction in decides is
\* false for the job of the registry (this job, the one AddJob is called
\* with): the rest of the && is not evaluated and the delete is not reached
CleanupSkips(th, in) ==
    /\ th.op = "CleanupCompleted"
    /\ \/ in = Instr("read", "jobs") /\ DOMAIN mgr = {}
       \/ in = Instr("read", "status") /\ ~Terminal(status)
       \/ in = Instr("read", "endTime")
            /\ ~(endTime # NoTime /\ th.at - endTime > th.arg)

\* a goroutine executes its next instruction
OpStep(t) ==
    /\ InOp(t)
    /\ ~AtReturn(t)
    /\ ~Blocked(t)
    /\ LET th == threads[t]
           in == NextInstr(t)
       IN /\ threads' = [threads EXCEPT
                  ![t].pc = IF CleanupSkips(th, in)
                            THEN Len(CleanupProgram)
                            ELSE th.pc + 1,
                  ![t].at = IF th.op = "CleanupCompleted"
                               /\ in = Instr("Lock", "mu")
                            THEN now ELSE th.at]
          /\ IF th.op = "AddJob" /\ in = Instr("write", "jobs")
             THEN mgr' = Put(mgr, JobIDOf(th.arg), th.arg)
             ELSE IF th.op = "CleanupCompleted" /\ in = Instr("write", "jobs")
             THEN mgr' = [id \in {i \in DOMAIN mgr : mgr[i] # 0} |-> mgr[id]]
             ELSE UNCHANGED mgr
    /\ UNCHANGED lockFrame

\* executeGraphQL returns an error: checkStatus returns without the lock
OpRequestFails(t) ==
    /\ InOp(t)
    /\ ~AtReturn(t)
    /\ NextInstr(t).kind = "request"
    /\ threads' = [threads EXCEPT ![t].pc = Len(ProgramOf(t)) + 1]
    /\ UNCHANGED <<mgr, lockFrame>>

\* the operation returns
OpReturn(t) ==
    /\ AtReturn(t)
    /\ threads' = [threads EXCEPT ![t] = NoOp]
    /\ UNCHANGED <<mgr, lockFrame>>

WaitStep(maxProbes) ==
    \/ WaitSetCancelFunc
    \/ WaitStoreInProgress
    \/ WaitCtxDone
    \/ WaitTick(maxProbes)
    \/ \E e \in WaitProbeErrors : WaitProbeError(e)
    \/ \E accounts \in Responses(accountIDs, startTime) : WaitProbeOK(accounts)
    \/ WaitSetError
    \/ WaitCount
    \/ WaitBackoff
    \/ WaitStoreTerminal
    \/ WaitStampEnd

Cancel ==
    \/ CancelCall
    \/ CancelCallFunc
    \/ CancelStore
    \/ CancelStamp

Init == InitOver(OneItem)

Next ==
    \/ Advance(MaxQuanta)
    \/ ParentCancel
    \/ \E t \in Timeouts : WaitCall(t, MaxWaits)
    \/ WaitStep(MaxProbes)
    \/ Cancel

Spec == Init /\ [][Next]_vars

InitWait == InitOver(ItemLists)

NextWait ==
    \/ Advance(SeqQuanta)
    \/ ParentCancel
    \/ \E t \in Timeouts : WaitCall(t, SeqWaits)
    \/ WaitStep(SeqProbes)

SpecWait == InitWait /\ [][NextWait]_vars

InitObs == InitOver(TwoItems)

NextObs ==
    \/ Advance(ObsQuanta)
    \/ ParentCancel
    \/ \E t \in Timeouts : WaitCall(t, ObsWaits)
    \/ WaitStep(ObsProbes)
    \/ IsComplete(MaxObs)

SpecObs == InitObs /\ [][NextObs]_vars

\* SpecWait with a provider whose answers may hold one more account
NextWide ==
    \/ Advance(ObsQuanta)
    \/ ParentCancel
    \/ \E t \in Timeouts : WaitCall(t, ObsWaits)
    \/ WaitStep(ObsProbes)
    \/ \E accounts \in WiderResponses(accountIDs, startTime) : WaitProbeOK(accounts)

SpecWide == Init /\ [][NextWide]_vars

\* SpecWait with a caller that takes the progress map and edits it
NextCopy ==
    \/ Advance(ObsQuanta)
    \/ ParentCancel
    \/ \E t \in Timeouts : WaitCall(t, ObsWaits)
    \/ WaitStep(ObsProbes)
    \/ GetProgressCall
    \/ \E k \in AllIDs, v \in BOOLEAN : CallerPut(k, v)
    \/ \E k \in AllIDs : CallerDelete(k)

SpecCopy == Init /\ [][NextCopy]_vars

\* the manager over jobs that are used one at a time
NextMgr ==
    \/ Pass(MgrQuanta)
    \/ NewJob
    \/ \E n \in 1..MaxOthers : WaitOther(n)
    \/ \E n \in 1..MaxOthers : CancelOther(n)
    \/ Cancel
    \/ \E n \in 0..MaxOthers : AddJob(n)
    \/ \E d \in Ages : CleanupCompleted(d)

SpecMgr == Init /\ [][NextMgr]_vars

\* the manager holding this job while Wait and Cancel run on it
NextClean ==
    \/ Advance(ObsQuanta)
    \/ \E t \in Timeouts : WaitCall(t, ObsWaits)
    \/ WaitStep(ObsProbes)
    \/ Cancel
    \/ AddJob(0)
    \/ \E d \in Ages : CleanupCompleted(d)

SpecClean == Init /\ [][NextClean]_vars

\* SpecWait with a second goroutine that calls Wait on the same job and runs
\* it to its return; Cancel is not called
NextTwo ==
    \/ Advance(ObsQuanta)
    \/ ParentCancel
    \/ \E t \in Timeouts : WaitCall(t, ObsWaits)
    \/ WaitStep(ObsProbes)
    \/ Wait2(ObsProbes)

SpecTwo == Init /\ [][NextTwo]_vars

\* SpecTwo with a first Wait of 2s, whose deadline falls before the clock
\* stops; the scheduler runs every goroutine that can take a step and time
\* passes, but no caller has to cancel its context
NextReturn ==
    \/ Advance(ObsQuanta)
    \/ ParentCancel
    \/ WaitCall(2 * Second, ObsWaits)
    \/ WaitStep(ObsProbes)
    \/ Wait2(ObsProbes)

SpecReturn ==
    /\ Init /\ [][NextReturn]_vars
    /\ WF_vars(Advance(ObsQuanta) \/ WaitStep(ObsProbes) \/ Wait2Step(ObsProbes))

\* the same with a goroutine that calls Cancel in place of the second Wait;
\* a Cancel that was called runs to its return
NextCancelReturn ==
    \/ Advance(ObsQuanta)
    \/ ParentCancel
    \/ WaitCall(2 * Second, ObsWaits)
    \/ WaitStep(ObsProbes)
    \/ Cancel

SpecCancelReturn ==
    /\ Init /\ [][NextCancelReturn]_vars
    /\ WF_vars(Advance(ObsQuanta) \/ WaitStep(ObsProbes)
                  \/ CancelCallFunc \/ CancelStore \/ CancelStamp)

\* SpecWide with a goroutine that calls GetMetrics
NextMetrics ==
    \/ NextWide
    \/ GetMetrics(MaxMetrics)

SpecMetrics == Init /\ [][NextMetrics]_vars

\* SpecWait with a provider whose answers may leave accounts out
NextOmit ==
    \/ Advance(ObsQuanta)
    \/ ParentCancel
    \/ \E t \in Timeouts : WaitCall(t, ObsWaits)
    \/ WaitStep(ObsProbes)
    \/ \E accounts \in OmittingResponses(accountIDs, startTime) : WaitProbeOK(accounts)

SpecOmit == InitObs /\ [][NextOmit]_vars

\* the goroutines calling the operations that take a lock, all interleavings
NextLock ==
    \/ Pass(LockQuanta)
    \/ Cancel
    \/ \E t \in Goroutines, op \in Ops : \E arg \in ArgsOf(op) : OpCall(t, op, arg)
    \/ \E t \in Goroutines : OpStep(t)
    \/ \E t \in Goroutines : OpRequestFails(t)
    \/ \E t \in Goroutines : OpReturn(t)

SpecLock == Init /\ [][NextLock]_vars

\* more than icRet.calls ever is: no limit on the number of IsComplete calls
NoLimit == MaxObs + 1

\* SpecObs with a caller that polls IsComplete for ever: every call it can
\* make it does make, and every call made runs to its return
NextPoll ==
    \/ Advance(ObsQuanta)
    \/ ParentCancel
    \/ \E t \in Timeouts : WaitCall(t, ObsWaits)
    \/ WaitStep(ObsProbes)
    \/ IsComplete(NoLimit)

SpecPoll == InitObs /\ [][NextPoll]_vars /\ WF_vars(IsComplete(NoLimit))

TypeOK ==
    /\ status \in {RefreshStatusPending, RefreshStatusInProgress,
                   RefreshStatusCompleted, RefreshStatusFailed,
                   RefreshStatusCancelled, RefreshStatusTimeout}
    /\ now >= StartClock
    /\ checkCount \in Nat
    /\ ic.pc \in {"idle", "switch", "probing"}

(***************************************************************************)
(* Properties.                                                             *)
(***************************************************************************)
NoCallYet == waitCalls = 0 /\ cancelCalls = 0 /\ icRet.calls = 0

IDSet(ids) == {ids[i] : i \in 1..Len(ids)}

WaitReturned == wpc = "returned"

\* the error kinds the specification calls retryable: rate limiting, a
\* transient timeout, a server error or a status code of 429 or of 500 and up
RetryableKind(err) ==
    \/ err.is \cap {"ErrRateLimited", "ErrTimeout", "ErrServerError",
                    "types.ErrRateLimited", "types.ErrTimeout",
                    "types.ErrServerError"} # {}
    \/ err.code >= 500
    \/ err.code = 429

\* C1: right after construction, before any operation is called, the status
\* is Pending and GetProgress maps exactly the constructor's item IDs, each
\* to false.
C1_FreshJob ==
    NoCallYet =>
        /\ status = RefreshStatusPending
        /\ DOMAIN GetProgress = IDSet(accountIDs)
        /\ \A k \in DOMAIN GetProgress : GetProgress[k] = FALSE

C1_Witness ==
    /\ NoCallYet
    /\ accountIDs = <<"a", "b">>
    /\ GetProgress = [k \in {"a", "b"} |-> FALSE]

\* C3: when Cancel is never called and the first probe of Wait reports all
\* items complete, Wait returns nil with status Completed and endTime set, not
\* before startTime; and Wait returns nil only after a probe of its own
\* reported all-complete.
C3_FirstProbeComplete ==
    /\ (WaitReturned /\ cancelCalls = 0 /\ probes = 1
            /\ lastOutcome = "complete") =>
          /\ ret = NoErr
          /\ status = RefreshStatusCompleted
          /\ endTime # NoTime
          /\ endTime - startTime >= 0
    /\ (WaitReturned /\ ret = NoErr) => lastOutcome = "complete"

C3_Witness ==
    /\ WaitReturned
    /\ cancelCalls = 0
    /\ probes = 1
    /\ lastOutcome = "complete"
    /\ status = RefreshStatusCompleted
    /\ endTime > startTime

ProbesAllIncomplete == ~sawError /\ lastOutcome \in {"none", "incomplete"}

TimedOutResult ==
    /\ ret = ErrRefreshTimeout
    /\ status = RefreshStatusTimeout
    /\ endTime # NoTime
    /\ now - waitStart >= timeout

\* C4 as stated: when every probe reports not-all-complete without error and
\* Cancel is never called, Wait returns ErrRefreshTimeout with status TimedOut
\* and endTime set, and not before the timeout has elapsed.
C4_TimeoutNotBefore ==
    (WaitReturned /\ cancelCalls = 0 /\ ProbesAllIncomplete) => TimedOutResult

\* C4 amended: the same, for a Wait whose caller's context is still live
\* when Wait returns.
C4_TimeoutNotBeforeLiveParent ==
    (WaitReturned /\ cancelCalls = 0 /\ ProbesAllIncomplete /\ ~parentDone)
        => TimedOutResult

C4_Witness ==
    /\ WaitReturned
    /\ cancelCalls = 0
    /\ ~parentDone
    /\ probes >= 1
    /\ ProbesAllIncomplete
    /\ status = RefreshStatusTimeout
    /\ now - waitStart >= timeout

FatalProbe == lastOutcome = "error" /\ ~RetryableKind(perr)

\* C5: after a probe of Wait returned a non-retryable error, Wait makes no
\* further probe and returns that error, which is also the one stored in
\* lastError; the status Wait leaves is Failed and endTime is set.
C5_FatalErrorFails ==
    FatalProbe =>
        /\ wpc \in {"setError", "storeTerminal", "stampEnd", "returned"}
        /\ wpc # "setError" =>
              /\ term = RefreshStatusFailed
              /\ ret = perr
              /\ lastError = perr
        /\ wpc \in {"stampEnd", "returned"} => status = RefreshStatusFailed
        /\ WaitReturned => endTime # NoTime

C5_Witness ==
    /\ WaitReturned
    /\ FatalProbe
    /\ probes = 2
    /\ ret = Wrap(ApiError(400))
    /\ status = RefreshStatusFailed

\* C2: a terminal status is never left: once the status is Completed,
\* Failed, Cancelled or TimedOut, no step of any operation changes it.
C2_TerminalAbsorbing ==
    [][Terminal(status) => status' = status]_vars

\* C6: when a probe of Wait fails with an error of a retryable kind, the
\* handling of that error records it in lastError, leaves the status and the
\* polling interval as they are and goes back to polling.
C6_RetryableKeepsPolling ==
    [][(wpc = "setError" /\ wpc' # "setError" /\ RetryableKind(perr)) =>
          /\ lastError' = perr
          /\ status' = status
          /\ currentInterval' = currentInterval
          /\ wpc' = "select"]_vars

\* the context of the Wait that returned ended before the job completed:
\* Wait left through its Done branch, or its last probe failed on the context
EndedByContext ==
    /\ WaitReturned
    /\ \/ term \in {RefreshStatusCancelled, RefreshStatusTimeout}
       \/ /\ term = RefreshStatusFailed
          /\ \/ ErrorsIs(perr, "context.Canceled")
             \/ ErrorsIs(perr, "context.DeadlineExceeded")

\* C7: a Wait whose context ended before the job completed returns with
\* status Cancelled and the cancellation error if Cancel was called before or
\* during it, and with status TimedOut and ErrRefreshTimeout otherwise.
C7_CancelledIffCancel ==
    [][(~WaitReturned /\ EndedByContext'
            /\ (cancelCalls' = 0 \/ wCancelBefore' \/ wCancelDuring')) =>
          IF wCancelBefore' \/ wCancelDuring'
          THEN status' = RefreshStatusCancelled /\ ret' = ErrJobCancelled
          ELSE status' = RefreshStatusTimeout /\ ret' = ErrRefreshTimeout]_vars

\* C8: when Cancel was called while Wait was in flight (before it recorded
\* its cancel function, between ticks or during a probe), Wait returns the
\* cancellation error and the status both calls leave is Cancelled.
C8_CancelDuringWait ==
    (WaitReturned /\ cpc = "idle" /\ wCancelDuring) =>
        /\ ret = ErrJobCancelled
        /\ status = RefreshStatusCancelled

\* C9: when Cancel had returned before Wait was first called, that Wait
\* returns with status Cancelled and without having made a probe.
C9_CancelBeforeWait ==
    (WaitReturned /\ waitCalls = 1 /\ wCancelBefore) =>
        /\ status = RefreshStatusCancelled
        /\ probes = 0

\* C10: a Cancel called on a job whose status is terminal leaves the status
\* and endTime as they were when it was called.
C10_CancelNoOpWhenTerminal ==
    [][(cpc = "stamp" /\ cpc' = "idle" /\ Terminal(cPre.status)
            /\ cPre.quiet /\ ~WaitInFlight) =>
          /\ status' = cPre.status
          /\ endTime' = cPre.endTime]_vars

\* C17: a caller that never calls Wait and keeps polling IsComplete
\* eventually receives (true, nil).
C17_PollingCompletes ==
    <>(waitCalls > 0 \/ (icRet.calls > 0 /\ icRet.complete /\ icRet.err = NoErr))

\* the response of the probe made by IsComplete was an error
ProbeFailed(resp) == Len(resp) = 1 /\ "is" \in DOMAIN resp[1]

\* C18: IsComplete never changes status, endTime or checkCount; a call that
\* read Pending changes no field of the job; and when it returns, a call
\* that read Completed returns (true, nil) without a probe, one that read
\* Failed, Cancelled or TimedOut returns false without a probe, one that read
\* Pending returns (false, nil) without a probe, and one that read InProgress
\* has made exactly one probe and returns that probe's result.
C18_IsCompleteMapping ==
    [][(ic' # ic) =>
          /\ status' = status
          /\ endTime' = endTime
          /\ checkCount' = checkCount
          /\ ic'.status = RefreshStatusPending => jobVars' = jobVars
          /\ (ic.pc # "idle" /\ ic'.pc = "idle") =>
                /\ ic.status = RefreshStatusCompleted =>
                      /\ icRet'.complete /\ icRet'.err = NoErr
                      /\ ic'.probes = 0
                /\ ic.status \in {RefreshStatusFailed, RefreshStatusCancelled,
                                  RefreshStatusTimeout} =>
                      /\ ~icRet'.complete
                      /\ ic'.probes = 0
                /\ ic.status = RefreshStatusPending =>
                      /\ ~icRet'.complete /\ icRet'.err = NoErr
                      /\ ic'.probes = 0
                /\ ic.status = RefreshStatusInProgress =>
                      /\ ic'.probes = 1
                      /\ IF ProbeFailed(ic'.resp)
                         THEN /\ ~icRet'.complete
                              /\ icRet'.err = Wrap(ic'.resp[1])
                         ELSE /\ icRet'.complete
                                    = AllComplete(ic'.resp, startTime)
                              /\ icRet'.err = NoErr]_vars

C18_Witness ==
    /\ WaitInFlight
    /\ ic.pc = "idle"
    /\ ic.status = RefreshStatusInProgress
    /\ ic.probes = 1
    /\ icRet.complete
    /\ status = RefreshStatusInProgress

\* C11: when Wait returns, GetMetrics().CheckCount is the number of probes
\* Wait made, whatever their outcome.
C11_CheckCountCountsProbes ==
    (MetricsReturned /\ gm.afterWait /\ waitCalls = 1) =>
        gm.m.CheckCount = probes

\* C16: in every GetMetrics snapshot CompletedCount is at most
\* AccountCount, whatever accounts the provider's responses list.
C16_CompletedAtMostAccounts ==
    MetricsReturned => gm.m.CompletedCount <= gm.m.AccountCount

\* C12: an edit of the map GetProgress returned changes nothing that
\* GetProgress or GetMetrics return afterwards, and no later step of the
\* job changes the returned map.
C12_ProgressIsACopy ==
    [][/\ (held.ref # "none" /\ held'.edits = held.edits + 1) =>
             /\ GetProgress' = GetProgress
             /\ jobVars' = jobVars
       /\ (held.ref # "none" /\ held' = held) => HeldMap' = HeldMap]_vars

C12_Witness ==
    /\ held.ref # "none"
    /\ held.edits = 2
    /\ probes >= 1
    /\ lastOutcome = "complete"
    /\ HeldMap = [k \in {"b"} |-> TRUE]
    /\ GetProgress = [k \in {"a"} |-> TRUE]

\* a CleanupCompleted call has just returned
Cleaned == cleanupRet'.calls = cleanupRet.calls + 1

\* Wait is in its polling loop: it has stored InProgress and has not yet
\* chosen the result it returns
WaitLooping ==
    wpc \in {"select", "probing", "setError", "count", "backoff",
             "storeTerminal", "stampEnd"}

\* C13: CleanupCompleted never removes a job whose status is Pending or
\* InProgress, whose endTime is unset, or on which a Wait call has started
\* and not yet returned.
C13_CleanupSparesWaitedJobs ==
    [][Cleaned =>
          \A id \in DOMAIN mgr \ DOMAIN mgr' :
              /\ JobStatus(mgr[id]) \notin {RefreshStatusPending,
                                             RefreshStatusInProgress}
              /\ JobEndTime(mgr[id]) # NoTime
              /\ mgr[id] = 0 => ~WaitInFlight]_vars

\* C14: CleanupCompleted(d) removes exactly the registered jobs whose status
\* is terminal and whose endTime lies more than d before the current time,
\* leaves every other registered job retrievable by GetJob and ListJobs,
\* and returns the number of jobs it removed.
C14_CleanupRemovesExactly ==
    [][Cleaned =>
          /\ \A id \in DOMAIN mgr :
                LET n == mgr[id]
                    old == /\ JobStatus(n) \in {RefreshStatusCompleted,
                                  RefreshStatusFailed, RefreshStatusCancelled,
                                  RefreshStatusTimeout}
                           /\ JobEndTime(n) # NoTime
                           /\ JobEndTime(n) + cleanupRet'.olderThan < now
                IN IF old
                   THEN GetJob(id)'[2] = FALSE
                   ELSE GetJob(id)' = <<n, TRUE>> /\ n \in ListJobs'
          /\ ListJobs' \subseteq ListJobs
          /\ DOMAIN mgr' \subseteq DOMAIN mgr
          /\ cleanupRet'.removed
                = Cardinality(DOMAIN mgr) - Cardinality(DOMAIN mgr')]_vars

\* a cleanup with d of half a second removed the one job that had ended
\* more than d before and kept the one that had ended exactly d before
C14_Witness ==
    /\ cleanupRet.calls = 1
    /\ cleanupRet.olderThan = HalfSecond
    /\ cleanupRet.removed = 1
    /\ cleanupRet.kept = 1
    /\ \E id \in DOMAIN mgr :
          /\ Terminal(JobStatus(mgr[id]))
          /\ JobEndTime(mgr[id]) # NoTime
          /\ now - JobEndTime(mgr[id]) = HalfSecond

\* C19: any two distinct jobs have different IDs.
C19_JobIDsUnique ==
    \A m, n \in AllJobs : m # n => JobIDOf(m) # JobIDOf(n)

\* C15: no two goroutines are ever about to access the same field of the
\* job, one of them writing it, without a lock or an atomic.
C15_NoDataRace ==
    /\ ~Conflict(WaitAccesses, CancelAccesses)
    /\ ~Conflict(WaitAccesses, IsCompleteAccesses)
    /\ ~Conflict(CancelAccesses, IsCompleteAccesses)

\* C20 (the state at return): when a Wait call returns, the status of the
\* job is terminal.
C20_WaitReturnsTerminal ==
    [][/\ (wpc # "returned" /\ wpc' = "returned") => Terminal(status')
       /\ (w2.pc # "returned" /\ w2'.pc = "returned") => Terminal(status')]_vars

\* a Wait whose deadline falls before the clock stops returns, whatever the
\* probes answer and whatever the other goroutine does (checked under
\* SpecReturn and SpecCancelReturn)
WaitReturns ==
    (WaitInFlight /\ deadline <= StartClock + ObsQuanta * Quantum)
        ~> WaitReturned

\* C21: once endTime has been assigned, no step of any operation assigns
\* it again.
C21_EndTimeSetOnce ==
    [][endTime # NoTime => endTime' = endTime]_vars

\* C22: in every GetMetrics snapshot, EndTime is set if and only if Status
\* is terminal.
C22_StatusAgreesWithEndTime ==
    MetricsReturned => ((gm.m.EndTime # NoTime) <=> Terminal(gm.m.Status))

\* Wait has dealt with the result of a probe and goes back to its select
ProbeHandled == wpc \in {"backoff", "setError"} /\ wpc' = "select"

\* C23: the polling interval is multiplied by 1.5 and capped at 5s exactly
\* when the number of probes this Wait has made reaches a multiple of 3
\* without the job finishing, and is unchanged at every other probe; it is
\* always between 1s and 5s and never decreases.
C23_BackoffSchedule ==
    [][/\ ProbeHandled =>
             currentInterval' = IF probes % 3 = 0
                                THEN NextInterval(currentInterval)
                                ELSE currentInterval
       /\ (WaitLooping /\ WaitLooping') =>
             /\ currentInterval' >= currentInterval
             /\ currentInterval' >= 1 * Second
             /\ currentInterval' <= 5 * Second]_vars

\* C24: a probe records an item as complete if and only if the provider
\* reports it not syncing, with no pending credential update and with a
\* last-synced timestamp at or after startTime.
C24_CompleteIffSyncedAtOrAfter ==
    [][(ic.pc = "probing" /\ ic'.pc = "idle" /\ ~ProbeFailed(ic'.resp)) =>
          \A i \in 1..Len(ic'.resp) :
              LET account == ic'.resp[i]
              IN GetProgress'[account.id]
                    = (/\ ~account.syncing
                       /\ ~account.updateRequired
                       /\ account.lastSynced # NoTime
                       /\ account.lastSynced >= startTime)]_vars

\* C25: when a probe of Wait reported all-complete, GetProgress maps every
\* item of the job to true, also when the response left items out.
C25_AllCompleteMeansAll ==
    (waitCalls = 1 /\ lastOutcome = "complete") =>
        \A k \in IDSet(accountIDs) : GetProgress[k]

\* C26: the keys of the progress map are the job's item IDs in every
\* state, whatever item IDs the responses hold.
C26_ProgressKeysAreItems ==
    DOMAIN GetProgress = IDSet(accountIDs)

\* C29: IsComplete on a job whose status is Failed, Cancelled or TimedOut
\* returns false together with a non-nil error.
C29_FailureReturnedAsError ==
    [][(ic.pc = "switch" /\ ic'.pc = "idle"
            /\ ic.status \in {RefreshStatusFailed, RefreshStatusCancelled,
                              RefreshStatusTimeout}) =>
          /\ ~icRet'.complete
          /\ icRet'.err # NoErr]_vars

JobLocks == {"progressMux", "errorLock"}

\* C27: no goroutine holds the progress lock and the error lock together,
\* or a lock of the job together with the registry lock; a goroutine about
\* to acquire a lock holds none; an operation returns with no lock held;
\* and a goroutine waiting for a lock waits for goroutines that are not
\* themselves waiting.
C27_LockDiscipline ==
    \A t \in Goroutines :
        /\ ~(JobLocks \subseteq HeldBy(t))
        /\ "mu" \in HeldBy(t) => HeldBy(t) \cap JobLocks = {}
        /\ (InOp(t) /\ ~AtReturn(t)
                /\ NextInstr(t).kind \in {"Lock", "RLock"}) => HeldBy(t) = {}
        /\ AtReturn(t) => HeldBy(t) = {}
        /\ \A u \in Blockers(t) : ~Blocked(u)

\* a goroutine in GetMetrics waits for the progress lock, which a goroutine
\* in checkStatus holds for writing
C27_Witness ==
    \E t, u \in Goroutines :
        /\ threads[t].op = "checkStatus"
        /\ "progressMux" \in WriteHeldBy(t)
        /\ threads[u].op = "GetMetrics"
        /\ Blockers(u) = {t}

\* the fields of a job that its operations change
JobState == {"status", "endTime", "lastCheck", "checkCount", "cancelFunc",
             "cancelled", "progress", "lastError"}

\* C28: while it holds the registry lock, no operation of the manager
\* reads or writes a field of a job's state.
C28_RegistryLockOnlyForMap ==
    \A t \in Goroutines :
        ("mu" \in HeldBy(t) /\ ~AtReturn(t)) => NextInstr(t).on \notin JobState

\* checkStatus is entered, by Wait or by IsComplete
ProbeStarts ==
    \/ wpc = "select" /\ wpc' = "probing"
    \/ ic.pc = "switch" /\ ic'.pc = "probing"

\* checkStatus returns an error, to Wait or to IsComplete
ProbeFails ==
    \/ wpc = "probing" /\ wpc' = "setError"
    \/ ic.pc = "probing" /\ ic'.pc = "idle" /\ ProbeFailed(ic'.resp)

\* Wait has dealt with the error of its probe
ErrorHandled == wpc = "setError" /\ wpc' # "setError"

\* C30 amended: no step of a probe that returns an error (its start, its
\* return, and Wait's handling of the error) changes an entry of the
\* progress map or checkCount.
C30_FailedProbeKeepsProgress ==
    [][(ProbeStarts \/ ProbeFails \/ ErrorHandled) =>
          /\ progress' = progress
          /\ checkCount' = checkCount]_vars

\* C30 as stated: when a probe of Wait has returned an error (and no
\* IsComplete call was made), every field of the job but the error slot is
\* what it was before that probe.
C30_FailedProbeChangesOnlyError ==
    (wpc = "setError" /\ probePre.taken /\ icRet.calls = 0) =>
        JobFields = probePre.job

\* the second probe of Wait failed with a retryable error after the first
\* had recorded an item as complete, and Wait has gone back to polling
C30_Witness ==
    /\ wpc = "select"
    /\ probes = 2
    /\ lastOutcome = "error"
    /\ lastError # NoErr
    /\ checkCount = 1
    /\ GetProgress = [k \in {"a", "b"} |-> k = "a"]

====
